---- MODULE Spec2Model ----
(***************************************************************************)
(* A model of Grid2D (src/Grid2D.js): a rectangular array of cells mapped   *)
(* onto a coordinate space by an origin and a cell size.                    *)
(*                                                                          *)
(* JavaScript numbers are modelled as exact rationals [n, d] (d > 0), with  *)
(* [0, 0] standing for NaN; floating-point rounding is not modelled.        *)
(* JavaScript values stored in cells are tagged records [t, v].             *)
(* JavaScript arrays are sequences: index i of the array is element i + 1.  *)
(***************************************************************************)
EXTENDS Integers, Sequences, FiniteSets, TLC

VARIABLES
    left, right, top, bottom,   \* this.left, this.right, this.top, this.bottom
    width, height,              \* this.width, this.height
    cellSize,                   \* this.cellSize = [cellWidth, cellHeight]
    num_columns, num_rows,      \* this.num_columns, this.num_rows
    data,                       \* this.data, an array of rows
    heap,                       \* the objects (arrays, plain objects, dates) values refer to
    ctor,                       \* the arguments of the new Grid2D(...) call
    pc,                         \* the caller: "new", "failed", "idle" or "returned"
    last,                       \* the call just made on the grid, with its result
    nwrites                     \* how many mutating calls the caller has made

fields == <<left, right, top, bottom, width, height, cellSize, num_columns, num_rows>>
vars == <<left, right, top, bottom, width, height, cellSize, num_columns, num_rows,
          data, heap, ctor, pc, last, nwrites>>

-----------------------------------------------------------------------------
\* Bounds of the exploration

MaxExtent == 3      \* width and height of a grid range over 1..MaxExtent
MaxWrites == 2      \* mutating calls per behaviour
MaxCoord == 4       \* point coordinates range over 0..MaxCoord
MaxDistance == 2    \* neighbourhood distances range over 0..MaxDistance

CellSizes == {1, 2, 3}
Origins == {0, 1}
Numbers == {0, 1}

-----------------------------------------------------------------------------
\* Numbers

Abs(i) == IF i < 0 THEN -i ELSE i

RECURSIVE GCD(_, _)
GCD(a, b) == IF b = 0 THEN a ELSE GCD(b, a % b)

NaNR == [n |-> 0, d |-> 0]
IsNaN(x) == x.d = 0
Norm(n, d) == LET g == GCD(Abs(n), d) IN [n |-> n \div g, d |-> d \div g]
R(i) == [n |-> i, d |-> 1]
Half == [n |-> 1, d |-> 2]

RAdd(x, y) == IF IsNaN(x) \/ IsNaN(y) THEN NaNR ELSE Norm(x.n * y.d + y.n * x.d, x.d * y.d)
RSub(x, y) == IF IsNaN(x) \/ IsNaN(y) THEN NaNR ELSE Norm(x.n * y.d - y.n * x.d, x.d * y.d)
RMul(x, y) == IF IsNaN(x) \/ IsNaN(y) THEN NaNR ELSE Norm(x.n * y.n, x.d * y.d)
\* the only division by zero the grid performs is 0 / 0
RDiv(x, y) ==
    IF IsNaN(x) \/ IsNaN(y) \/ y.n = 0 THEN NaNR
    ELSE IF y.n > 0 THEN Norm(x.n * y.d, x.d * y.n)
    ELSE Norm(-(x.n * y.d), x.d * (-y.n))
RAbs(x) == [n |-> Abs(x.n), d |-> x.d]
RLe(x, y) == ~IsNaN(x) /\ ~IsNaN(y) /\ x.n * y.d <= y.n * x.d
RLt(x, y) == ~IsNaN(x) /\ ~IsNaN(y) /\ x.n * y.d < y.n * x.d
RGe(x, y) == RLe(y, x)
RGt(x, y) == RLt(y, x)
IsInt(x) == x.d = 1
Floor(x) == x.n \div x.d
Ceil(x) == -((-x.n) \div x.d)

-----------------------------------------------------------------------------
\* Values and arrays

Num(n) == [t |-> "number", v |-> n]
NaN == [t |-> "NaN", v |-> 0]
Undefined == [t |-> "undefined", v |-> 0]
Null == [t |-> "null", v |-> 0]
Ref(a) == [t |-> "object", v |-> a]

Absent == <<>>   \* an undefined cell, point or row

HasIndex(arr, i) == i >= 0 /\ i < Len(arr)
At(arr, i) == arr[i + 1]
\* arr[i] = v: an index past the end grows the array, a negative index is a
\* property that is no element
ArrayPut(arr, i, v) ==
    IF i < 0 THEN arr
    ELSE IF i < Len(arr) THEN [arr EXCEPT ![i + 1] = v]
    ELSE [k \in 1..(i + 1) |-> IF k <= Len(arr) THEN arr[k] ELSE IF k = i + 1 THEN v ELSE Undefined]

-----------------------------------------------------------------------------
\* deepCopy(obj), on the heap h: [threw, value, heap]

TypeOf(val) ==
    CASE val.t \in {"number", "NaN"} -> "number"
      [] val.t = "undefined" -> "undefined"
      [] OTHER -> "object"

deepCopy(obj, h) ==
    IF TypeOf(obj) # "object" \/ obj = Null
    THEN [threw |-> "none", value |-> obj, heap |-> h]
    ELSE LET o == h[obj.v] IN
         IF o.class = "Date"
         THEN [threw |-> "none", value |-> Ref(Len(h) + 1),
               heap |-> Append(h, [class |-> "Date", items |-> o.items])]
         \* reduce calls its callback once per element, and the callback's
         \* deepCopy(item) names no binding in scope
         ELSE IF Len(o.items) > 0
         THEN [threw |-> "ReferenceError", value |-> Undefined, heap |-> h]
         ELSE [threw |-> "none", value |-> Ref(Len(h) + 1),
               heap |-> Append(h, [class |-> o.class, items |-> <<>>])]

-----------------------------------------------------------------------------
\* constructor(width, height, initialValue, cellWidth, cellHeight, left, top)

\* the cells in the order the constructor fills them
RECURSIVE FillCells(_, _, _, _, _, _)
FillCells(r, c, rows, cols, initialValue, acc) ==
    IF acc.threw # "none" \/ r >= rows THEN acc
    ELSE IF c >= cols THEN FillCells(r + 1, 0, rows, cols, initialValue, acc)
    ELSE LET copy == deepCopy(initialValue, acc.heap)
             d == IF c = 0 THEN Append(acc.data, <<>>) ELSE acc.data
         IN FillCells(r, c + 1, rows, cols, initialValue,
                [threw |-> copy.threw,
                 heap |-> copy.heap,
                 data |-> IF copy.threw # "none" THEN d
                          ELSE [d EXCEPT ![r + 1] = Append(@, copy.value)]])

constructor(a, h) ==
    LET cols == Ceil(RDiv(a.width, a.cellWidth))
        rows == Ceil(RDiv(a.height, a.cellHeight))
        cells == FillCells(0, 0, rows, cols, a.initialValue,
                           [threw |-> "none", heap |-> h, data |-> <<>>])
    IN [threw |-> cells.threw,
        left |-> a.left, right |-> RAdd(a.left, a.width),
        top |-> a.top, bottom |-> RAdd(a.top, a.height),
        width |-> a.width, height |-> a.height,
        cellSize |-> <<a.cellWidth, a.cellHeight>>,
        num_columns |-> cols, num_rows |-> rows,
        data |-> cells.data, heap |-> cells.heap]

-----------------------------------------------------------------------------
\* The methods, as functions of the grid's state

cellInGrid(row, col) ==
    row >= 0 /\ row < num_rows /\ col >= 0 /\ col < num_columns

pointInGrid(x, y, margin) ==
    /\ RGe(x, RAdd(left, margin))
    /\ RLe(x, RSub(right, margin))
    /\ RGe(y, RAdd(top, margin))
    /\ RLe(y, RSub(bottom, margin))

\* getValue and setValue take the storage d they act on (this.data at the time
\* of the call), so that loops which call them can thread it through
getValue(d, row, col) ==
    IF cellInGrid(row, col) THEN At(At(d, row), col) ELSE Undefined

\* setValue without its cellInGrid test
setValueUnguarded(d, row, col, value) ==
    IF HasIndex(d, row)
    THEN [d EXCEPT ![row + 1] = ArrayPut(@, col, value)]
    ELSE d

\* setValue writing this.data[col][row]
setValueTransposed(d, row, col, value) ==
    IF cellInGrid(row, col) /\ HasIndex(d, col)
    THEN [d EXCEPT ![col + 1] = ArrayPut(@, row, value)]
    ELSE d

\* the storage after setValue(row, col, value)
setValue(d, row, col, value) ==
    IF cellInGrid(row, col)
    THEN [d EXCEPT ![row + 1] = ArrayPut(@, col, value)]
    ELSE d

\* getCellAtPoint rounding up
getCellAtPointCeil(x, y) ==
    IF pointInGrid(x, y, R(0))
    THEN LET column_index == Ceil(RDiv(RSub(x, left), cellSize[1]))
             row_index == Ceil(RDiv(RSub(y, top), cellSize[2]))
         IN <<row_index, column_index>>
    ELSE Absent

getCellAtPoint(x, y) ==
    IF pointInGrid(x, y, R(0))
    THEN LET column_index == Floor(RDiv(RSub(x, left), cellSize[1]))
             row_index == Floor(RDiv(RSub(y, top), cellSize[2]))
         IN <<row_index, column_index>>
    ELSE Absent

getValueAtPoint(x, y) ==
    LET cell == getCellAtPoint(x, y) IN
    IF cell # Absent THEN getValue(data, cell[1], cell[2]) ELSE Undefined

setValueAtPoint(x, y, value) ==
    LET cell == getCellAtPoint(x, y) IN
    IF cell # Absent THEN setValue(data, cell[1], cell[2], value) ELSE data

getCellCenter(row, col) ==
    IF cellInGrid(row, col)
    THEN << RAdd(RAdd(left, RMul(R(col), cellSize[1])), RDiv(cellSize[1], R(2))),
            RAdd(RAdd(top, RMul(R(row), cellSize[2])), RDiv(cellSize[2], R(2))) >>
    ELSE Absent

\* getCellPoint(row, col, w_disp, h_disp): [threw, result]
getCellPoint(row, col, w_disp, h_disp) ==
    IF pointInGrid(R(row), R(col), R(0))
    THEN LET cellCenter == getCellCenter(row, col)
             displacement == << RMul(RSub(w_disp, Half), cellSize[1]),
                                RMul(RSub(h_disp, Half), cellSize[2]) >>
         IN IF cellCenter = Absent
            THEN [threw |-> "TypeError", result |-> Absent]
            ELSE [threw |-> "none",
                  result |-> << RAdd(cellCenter[1], displacement[1]),
                                RAdd(cellCenter[2], displacement[2]) >>]
    ELSE [threw |-> "none", result |-> Absent]

\* the functions the caller passes to fill
ApplyFill(Fn, r, c) ==
    CASE Fn = "one" -> Num(1)
      [] Fn = "parity" -> Num((r + c) % 2)

\* the storage after fill(Fn)
fill(Fn) ==
    [r \in 1..Len(data) |->
        IF r <= num_rows
        THEN [c \in 1..(IF Len(data[r]) > num_columns THEN Len(data[r]) ELSE num_columns) |->
                 IF c <= num_columns THEN ApplyFill(Fn, r - 1, c - 1) ELSE data[r][c]]
        ELSE data[r]]

\* the conditions on a value the caller passes
ApplyCondition(condition, value) ==
    CASE condition = "isOne" -> value = Num(1)
      [] condition = "isZero" -> value = Num(0)

trueForEveryNeighbor(row, col, distance, condition) ==
    IF distance <= 0 THEN TRUE
    ELSE LET startColumn == IF col - distance > 0 THEN col - distance ELSE 0
             startRow == IF row - distance > 0 THEN row - distance ELSE 0
             endColumn == IF col + distance >= num_columns THEN num_columns - 1
                          ELSE col + distance
             endRow == IF row + distance >= num_rows THEN num_rows - 1 ELSE row + distance
         IN \A r \in startRow..endRow : \A c \in startColumn..endColumn :
                ApplyCondition(condition, At(At(data, r), c))

trueForAtLeastOneNeighbor(row, col, distance, condition) ==
    IF distance <= 0 THEN TRUE
    ELSE LET startColumn == IF col - distance > 0 THEN col - distance ELSE 0
             startRow == IF row - distance > 0 THEN row - distance ELSE 0
             endColumn == IF col + distance > num_columns THEN num_columns ELSE col + distance
             endRow == IF row + distance > num_rows THEN num_rows ELSE row + distance
         IN \E r \in startRow..(endRow - 1) : \E c \in startColumn..(endColumn - 1) :
                ApplyCondition(condition, At(At(data, r), c))

\* the loop of getCellsInSegment, from iteration i on
RECURSIVE SegmentLoop(_, _, _, _, _, _, _)
SegmentLoop(i, X, Y, steps, Xinc, Yinc, result) ==
    IF ~RLe(R(i), steps) THEN result
    ELSE LET cell == getCellAtPoint(X, Y) IN
         SegmentLoop(i + 1, RAdd(X, Xinc), RAdd(Y, Yinc), steps, Xinc, Yinc,
                     IF cell # Absent THEN Append(result, cell) ELSE result)

getCellsInSegment(p1, p2, step) ==
    LET dx == RSub(p2[1], p1[1])
        dy == RSub(p2[2], p1[2])
        steps == IF RGt(RAbs(dx), RAbs(dy))
                 THEN RDiv(RAbs(dx), cellSize[1])
                 ELSE RDiv(RAbs(dy), cellSize[2])
        Xinc == RDiv(dx, steps)
        Yinc == RDiv(dy, steps)
    IN SegmentLoop(0, p1[1], p1[2], steps, Xinc, Yinc, <<>>)

\* the loop of trueInASegment over cells, from cell k on: [threw, result]
RECURSIVE SegmentHolds(_, _, _)
SegmentHolds(cells, k, condition) ==
    IF k > Len(cells) THEN [threw |-> "none", result |-> TRUE]
    ELSE LET cell == cells[k] IN
         IF ~HasIndex(data, cell[1]) THEN [threw |-> "TypeError", result |-> FALSE]
         ELSE LET row == At(data, cell[1])
                  value == IF HasIndex(row, cell[2]) THEN At(row, cell[2]) ELSE Undefined
              IN IF ~ApplyCondition(condition, value)
                 THEN [threw |-> "none", result |-> FALSE]
                 ELSE SegmentHolds(cells, k + 1, condition)

trueInASegment(p1, p2, step, condition) ==
    SegmentHolds(getCellsInSegment(p1, p2, step), 1, condition)

RECURSIVE SetCells(_, _, _, _)
SetCells(d, cells, k, value) ==
    IF k > Len(cells) THEN d
    ELSE SetCells(setValue(d, cells[k][1], cells[k][2], value), cells, k + 1, value)

\* the storage after setValueInSegment(p1, p2, step, value)
setValueInSegment(p1, p2, step, value) ==
    SetCells(data, getCellsInSegment(p1, p2, step), 1, value)

\* the callbacks the caller passes to foreachCell: "collect" only reads,
\* "copyRight" is (r, c, v) => grid.setValue(r, c + 1, v)
RECURSIVE ForeachLoop(_, _, _, _, _)
ForeachLoop(d, r, c, Fn, visits) ==
    IF r >= num_rows THEN [data |-> d, visits |-> visits]
    ELSE IF c >= num_columns THEN ForeachLoop(d, r + 1, 0, Fn, visits)
    ELSE LET value == At(At(d, r), c) IN
         ForeachLoop(IF Fn = "copyRight" THEN setValue(d, r, c + 1, value) ELSE d,
                     r, c + 1, Fn, Append(visits, <<r, c, value>>))

foreachCell(Fn) == ForeachLoop(data, 0, 0, Fn, <<>>)

\* the conditions on a cell the caller passes to findFirstCell
ApplyCellCondition(condition, r, c) ==
    CASE condition.kind = "always" -> TRUE
      [] condition.kind = "at" -> r = condition.row /\ c = condition.col

\* the loops of findFirstCell from (r, c) on: [result, examined]
RECURSIVE FindLoop(_, _, _, _, _)
FindLoop(r, c, startColumn, condition, examined) ==
    IF r >= num_rows THEN [result |-> Absent, examined |-> examined]
    ELSE IF c >= num_columns THEN FindLoop(r + 1, startColumn, startColumn, condition, examined)
    ELSE IF ApplyCellCondition(condition, r, c)
         THEN [result |-> <<r, c>>, examined |-> Append(examined, <<r, c>>)]
         ELSE FindLoop(r, c + 1, startColumn, condition, Append(examined, <<r, c>>))

\* findFirstCell applying startColumn to the first row only
findFirstCellFromZero(startRow, startColumn, condition) ==
    FindLoop(startRow, startColumn, 0, condition, <<>>)

findFirstCell(startRow, startColumn, condition) ==
    FindLoop(startRow, startColumn, startColumn, condition, <<>>)

\* x * w and sum + x on cell values: undefined * w is NaN
Times(x, w) == IF x.t = "number" THEN Num(x.v * w) ELSE NaN
Plus(x, y) == IF x.t = "number" /\ y.t = "number" THEN Num(x.v + y.v) ELSE NaN

\* the index a number is as a property of an array (-2: neither it nor its
\* neighbours are elements)
Index(x) == IF IsInt(x) THEN x.n ELSE -2

\* the nine additions of laplace3x3 from the k-th on, Fn being v => v: [threw, result]
RECURSIVE LaplaceSum(_, _, _, _, _)
LaplaceSum(r, c, weights, k, sum) ==
    IF k >= 9 THEN [threw |-> "none", result |-> sum]
    ELSE LET rr == r + (k \div 3) - 1
             cc == c + (k % 3) - 1
         IN IF ~HasIndex(data, rr) THEN [threw |-> "TypeError", result |-> sum]
            ELSE LET row == At(data, rr)
                     value == IF HasIndex(row, cc) THEN At(row, cc) ELSE Undefined
                 IN LaplaceSum(r, c, weights, k + 1, Plus(sum, Times(value, weights[k + 1])))

laplace3x3(row, col, weights) ==
    LET r == IF R(row) = top THEN RAdd(top, R(1))
             ELSE IF R(row) = RSub(bottom, R(1)) THEN RSub(bottom, R(2))
             ELSE R(row)
        c == IF R(col) = left THEN RAdd(left, R(1))
             ELSE IF R(col) = RSub(right, R(1)) THEN RSub(right, R(2))
             ELSE R(col)
    IN LaplaceSum(Index(r), Index(c), weights, 0, Num(0))

-----------------------------------------------------------------------------
\* The caller

Call(op, args, result, threw) ==
    [op |-> op, args |-> args, result |-> result, threw |-> threw]
NoCall == Call("none", <<>>, <<>>, "none")

\* The arguments the caller draws from: A.idx for rows and columns, A.points for
\* points, A.ends for the end points of segments, and so on
Coords == {R(i) : i \in 0..MaxCoord}
Full ==
    [idx |-> -1..MaxExtent,
     starts |-> 0..MaxExtent,
     values |-> {Num(n) : n \in Numbers},
     points |-> Coords \X Coords,
     ends |-> Coords \X Coords,
     margins |-> {R(0), R(1)},
     displacements |-> {R(0), Half, R(1)},
     distances |-> 0..MaxDistance,
     conditions |-> {"isOne", "isZero"},
     fills |-> {"one", "parity"},
     callbacks |-> {"collect", "copyRight"},
     weights |-> { <<1, 1, 1, 1, 1, 1, 1, 1, 1>>, <<1, 2, 4, 8, 16, 32, 64, 128, 256>> },
     cellConditions |-> {[kind |-> "always", row |-> 0, col |-> 0]}
                           \cup [kind : {"at"}, row : 0..MaxExtent, col : 0..MaxExtent]]

CtorArgs(extents, sizes, origins, initials) ==
    [width : {R(i) : i \in extents}, height : {R(i) : i \in extents},
     initialValue : initials,
     cellWidth : {R(i) : i \in sizes}, cellHeight : {R(i) : i \in sizes},
     left : {R(i) : i \in origins}, top : {R(i) : i \in origins}]

\* the state new Grid2D(a) leaves, for an initialValue that is no object
Constructed(a) ==
    LET g == constructor(a, <<>>) IN
    /\ ctor = a
    /\ left = g.left /\ right = g.right /\ top = g.top /\ bottom = g.bottom
    /\ width = g.width /\ height = g.height /\ cellSize = g.cellSize
    /\ num_columns = g.num_columns /\ num_rows = g.num_rows
    /\ data = g.data /\ heap = g.heap
    /\ pc = "idle" /\ last = NoCall /\ nwrites = 0

\* grids of unit cells at the origin, as new Grid2D(width, height) makes them
Init ==
    \E a \in CtorArgs(1..MaxExtent, {1}, {0}, {Num(0)}) : Constructed(a)

\* grids of any cell size at any origin
InitPlaced ==
    \E a \in CtorArgs(1..MaxExtent, CellSizes, Origins, {Num(0)}) : Constructed(a)

Returns(call) ==
    /\ pc' = "returned"
    /\ last' = call
    /\ UNCHANGED <<fields, ctor, heap>>

Reads(call) ==
    /\ Returns(call)
    /\ UNCHANGED <<data, nwrites>>

Writes(call, newData) ==
    /\ Returns(call)
    /\ data' = newData
    /\ nwrites' = nwrites + 1

CanRead == pc = "idle"
CanWrite == pc = "idle" /\ nwrites < MaxWrites

Return ==
    /\ pc = "returned"
    /\ pc' = "idle"
    /\ last' = NoCall
    /\ UNCHANGED <<fields, data, heap, ctor, nwrites>>

GetValue(A) ==
    /\ CanRead
    /\ \E row \in A.idx, col \in A.idx :
        Reads(Call("getValue", <<row, col>>, getValue(data, row, col), "none"))

SetValue(A) ==
    /\ CanWrite
    /\ \E row \in A.idx, col \in A.idx, value \in A.values :
        Writes(Call("setValue", <<row, col, value>>, Undefined, "none"),
               setValue(data, row, col, value))

GetValueAtPoint(A) ==
    /\ CanRead
    /\ \E p \in A.points :
        Reads(Call("getValueAtPoint", p, getValueAtPoint(p[1], p[2]), "none"))

SetValueAtPoint(A) ==
    /\ CanWrite
    /\ \E p \in A.points, value \in A.values :
        Writes(Call("setValueAtPoint", <<p[1], p[2], value>>, Undefined, "none"),
               setValueAtPoint(p[1], p[2], value))

SetValueInSegment(A) ==
    /\ CanWrite
    /\ \E p1 \in A.ends, p2 \in A.ends, value \in A.values :
        Writes(Call("setValueInSegment", <<p1, p2, value>>, Undefined, "none"),
               setValueInSegment(p1, p2, R(1), value))

GetCellAtPoint(A) ==
    /\ CanRead
    /\ \E p \in A.points :
        Reads(Call("getCellAtPoint", p, getCellAtPoint(p[1], p[2]), "none"))

GetCellCenter(A) ==
    /\ CanRead
    /\ \E row \in A.idx, col \in A.idx :
        Reads(Call("getCellCenter", <<row, col>>, getCellCenter(row, col), "none"))

GetCellPoint(A) ==
    /\ CanRead
    /\ \E row \in A.idx, col \in A.idx, w_disp \in A.displacements, h_disp \in A.displacements :
        LET r == getCellPoint(row, col, w_disp, h_disp) IN
        Reads(Call("getCellPoint", <<row, col, w_disp, h_disp>>, r.result, r.threw))

Fill(A) ==
    /\ CanWrite
    /\ \E Fn \in A.fills :
        Writes(Call("fill", <<Fn>>, Undefined, "none"), fill(Fn))

TrueForEveryNeighbor(A) ==
    /\ CanRead
    /\ \E row \in 0..(num_rows - 1), col \in 0..(num_columns - 1),
          distance \in A.distances, condition \in A.conditions :
        Reads(Call("trueForEveryNeighbor", <<row, col, distance, condition>>,
                   trueForEveryNeighbor(row, col, distance, condition), "none"))

TrueInASegment(A) ==
    /\ CanRead
    /\ \E p1 \in A.ends, p2 \in A.ends, condition \in A.conditions :
        LET r == trueInASegment(p1, p2, R(1), condition) IN
        Reads(Call("trueInASegment", <<p1, p2, condition>>, r.result, r.threw))

GetCellsInSegment(A) ==
    /\ CanRead
    /\ \E p1 \in A.ends, p2 \in A.ends :
        Reads(Call("getCellsInSegment", <<p1, p2>>, getCellsInSegment(p1, p2, R(1)), "none"))

TrueForAtLeastOneNeighbor(A) ==
    /\ CanRead
    /\ \E row \in 0..(num_rows - 1), col \in 0..(num_columns - 1),
          distance \in A.distances, condition \in A.conditions :
        Reads(Call("trueForAtLeastOneNeighbor", <<row, col, distance, condition>>,
                   trueForAtLeastOneNeighbor(row, col, distance, condition), "none"))

ForeachCell(A) ==
    /\ CanWrite
    /\ \E Fn \in A.callbacks :
        LET r == foreachCell(Fn) IN
        Writes(Call("foreachCell", <<Fn>>, r.visits, "none"), r.data)

FindFirstCell(A) ==
    /\ CanRead
    /\ \E startRow \in A.starts, startColumn \in A.starts, condition \in A.cellConditions :
        LET r == findFirstCell(startRow, startColumn, condition) IN
        Reads(Call("findFirstCell", <<startRow, startColumn, condition>>,
                   [cell |-> r.result, examined |-> r.examined], "none"))

CellInGrid(A) ==
    /\ CanRead
    /\ \E row \in A.idx, col \in A.idx :
        Reads(Call("cellInGrid", <<row, col>>, cellInGrid(row, col), "none"))

PointInGrid(A) ==
    /\ CanRead
    /\ \E p \in A.points, margin \in A.margins :
        Reads(Call("pointInGrid", <<p[1], p[2], margin>>,
                   pointInGrid(p[1], p[2], margin), "none"))

Laplace3x3(A) ==
    /\ CanRead
    /\ \E row \in 0..(num_rows - 1), col \in 0..(num_columns - 1), weights \in A.weights :
        LET r == laplace3x3(row, col, weights) IN
        Reads(Call("laplace3x3", <<row, col, weights>>, r.result, r.threw))

-----------------------------------------------------------------------------
\* Cell access on grids of unit cells

Next == GetValue(Full) \/ SetValue(Full) \/ CellInGrid(Full) \/ Return

Spec == Init /\ [][Next]_vars

\* C1: after setValue(row, col, v) on an in-bounds cell, getValue(row, col) returns
\* v and every other cell reads as before; on an out-of-bounds cell the storage is
\* what it was and getValue(row, col) returns undefined.
C1_SetThenGet ==
    [][last'.op = "setValue" =>
        LET row == last'.args[1]
            col == last'.args[2]
            v == last'.args[3]
        IN IF 0 <= row /\ row < num_rows /\ 0 <= col /\ col < num_columns
           THEN /\ getValue(data', row, col) = v
                /\ \A r \in Full.idx, c \in Full.idx :
                      <<r, c>> # <<row, col>> => getValue(data', r, c) = getValue(data, r, c)
           ELSE /\ data' = data
                /\ getValue(data', row, col) = Undefined]_vars

\* a second in-bounds write has landed while the first one is still in place
C1_Witness ==
    /\ last.op = "setValue"
    /\ cellInGrid(last.args[1], last.args[2])
    /\ last.args[3] = Num(1)
    /\ getValue(data, last.args[1], last.args[2]) = Num(1)
    /\ \E r \in Full.idx, c \in Full.idx :
          <<r, c>> # <<last.args[1], last.args[2]>> /\ getValue(data, r, c) = Num(1)

-----------------------------------------------------------------------------
\* Every operation, with few arguments each, on the smaller grids of any cell
\* size at any origin

SmallExtents == 1..(MaxExtent - 1)
EdgeCoords == {R(0), R(2)}
Probe ==
    [Full EXCEPT !.idx = -1..(MaxExtent - 1),
                 !.starts = {0, 1},
                 !.values = {Num(1)},
                 !.points = EdgeCoords \X Coords,
                 !.ends = EdgeCoords \X EdgeCoords,
                 !.margins = {R(0)},
                 !.displacements = {Half},
                 !.distances = {1},
                 !.conditions = {"isOne"},
                 !.weights = { <<1, 1, 1, 1, 1, 1, 1, 1, 1>> },
                 !.cellConditions = {[kind |-> "at", row |-> 1, col |-> 0]}]

InitSmall ==
    \E a \in CtorArgs(SmallExtents, CellSizes, Origins, {Num(0)}) : Constructed(a)

NextAll ==
    \/ GetValue(Probe) \/ SetValue(Probe) \/ GetValueAtPoint(Probe) \/ SetValueAtPoint(Probe)
    \/ SetValueInSegment(Probe) \/ GetCellAtPoint(Probe) \/ GetCellCenter(Probe)
    \/ GetCellPoint(Probe) \/ Fill(Probe) \/ TrueForEveryNeighbor(Probe)
    \/ TrueInASegment(Probe) \/ GetCellsInSegment(Probe) \/ TrueForAtLeastOneNeighbor(Probe)
    \/ ForeachCell(Probe) \/ FindFirstCell(Probe) \/ CellInGrid(Probe) \/ PointInGrid(Probe)
    \/ Laplace3x3(Probe) \/ Return

SpecAll == InitSmall /\ [][NextAll]_vars

\* C3: whatever is called, the grid's fields keep their constructed values and
\* the storage has num_rows rows of num_columns cells.
C3_DimensionsFixed ==
    /\ [](/\ Len(data) = num_rows
          /\ \A r \in 1..Len(data) : Len(data[r]) = num_columns)
    /\ [][fields' = fields]_vars

\* an out-of-bounds setValue was made on a grid that an earlier call had changed
C3_Witness ==
    /\ last.op = "setValue"
    /\ ~cellInGrid(last.args[1], last.args[2])
    /\ HasIndex(data, last.args[1])
    /\ nwrites = MaxWrites
    /\ \E r \in 1..Len(data) : \E c \in 1..Len(data[r]) : data[r][c] = Num(1)

-----------------------------------------------------------------------------
\* Construction with any initialValue

\* the objects the caller has made before new Grid2D(...):
\* [], [0], [[]], {}, {k: 0}, new Date(0)
CallerHeap ==
    << [class |-> "Array", items |-> <<>>],
       [class |-> "Array", items |-> <<Num(0)>>],
       [class |-> "Array", items |-> <<Ref(1)>>],
       [class |-> "Object", items |-> <<>>],
       [class |-> "Object", items |-> <<Num(0)>>],
       [class |-> "Date", items |-> <<Num(0)>>] >>

InitialValues == {Num(0), Undefined, Null} \cup {Ref(a) : a \in 1..Len(CallerHeap)}

InitNew ==
    /\ ctor \in CtorArgs(SmallExtents, {1}, {0}, InitialValues)
    /\ heap = CallerHeap
    /\ left = R(0) /\ right = R(0) /\ top = R(0) /\ bottom = R(0)
    /\ width = R(0) /\ height = R(0) /\ cellSize = <<R(0), R(0)>>
    /\ num_columns = 0 /\ num_rows = 0 /\ data = <<>>
    /\ pc = "new" /\ last = NoCall /\ nwrites = 0

\* new Grid2D(width, height, initialValue, cellWidth, cellHeight, left, top)
Construct ==
    /\ pc = "new"
    /\ LET g == constructor(ctor, heap) IN
       IF g.threw # "none"
       THEN /\ pc' = "failed"
            /\ last' = Call("new", <<>>, Undefined, g.threw)
            /\ UNCHANGED <<fields, data, heap>>
       ELSE /\ pc' = "returned"
            /\ last' = Call("new", <<>>, Undefined, "none")
            /\ left' = g.left /\ right' = g.right /\ top' = g.top /\ bottom' = g.bottom
            /\ width' = g.width /\ height' = g.height /\ cellSize' = g.cellSize
            /\ num_columns' = g.num_columns /\ num_rows' = g.num_rows
            /\ data' = g.data /\ heap' = g.heap
    /\ UNCHANGED <<ctor, nwrites>>

\* the caller changes an object in place: push(1) on an array, a new key on an
\* object, setTime on a date
Mutated(h, a) ==
    [h EXCEPT ![a].items = IF h[a].class = "Date" THEN <<Num(@[1].v + 1)>>
                           ELSE Append(@, Num(1))]

\* grid.getValue(row, col).push(1), and the like
MutateCell ==
    /\ CanWrite
    /\ \E row \in 0..(num_rows - 1), col \in 0..(num_columns - 1) :
        LET value == getValue(data, row, col) IN
        /\ value.t = "object"
        /\ heap' = Mutated(heap, value.v)
        /\ last' = Call("mutateCell", <<row, col>>, Undefined, "none")
    /\ pc' = "returned"
    /\ nwrites' = nwrites + 1
    /\ UNCHANGED <<fields, data, ctor>>

\* initialValue.push(1), and the like, after the construction
MutateInitial ==
    /\ CanWrite
    /\ ctor.initialValue.t = "object"
    /\ heap' = Mutated(heap, ctor.initialValue.v)
    /\ last' = Call("mutateInitial", <<>>, Undefined, "none")
    /\ pc' = "returned"
    /\ nwrites' = nwrites + 1
    /\ UNCHANGED <<fields, data, ctor>>

NextNew ==
    \/ Construct \/ MutateCell \/ MutateInitial \/ GetValue(Probe) \/ SetValue(Probe) \/ Return

SpecNew == InitNew /\ [][NextNew]_vars

\* the objects a value reaches, to any depth
RECURSIVE Reach(_, _, _)
Reach(value, h, depth) ==
    IF value.t # "object" \/ depth = 0 THEN {}
    ELSE {value.v} \cup UNION {Reach(h[value.v].items[k], h, depth - 1) :
                                  k \in 1..Len(h[value.v].items)}

IsComposite(value, h) ==
    value.t = "object" /\ h[value.v].class # "Date" /\ Len(h[value.v].items) > 0

\* C2: constructing a grid with a non-empty array or object as initialValue
\* succeeds and leaves every cell a copy of its own: no object is reached from
\* two cells, or from a cell and initialValue, so that changing it through one
\* changes the other.
C2_CompositeIsolated ==
    pc # "new" /\ IsComposite(ctor.initialValue, CallerHeap) =>
        /\ pc # "failed"
        /\ \A r \in 0..(num_rows - 1), c \in 0..(num_columns - 1) :
             LET mine == Reach(getValue(data, r, c), heap, Len(heap)) IN
             /\ mine # {}
             /\ mine \cap Reach(ctor.initialValue, heap, Len(heap)) = {}
             /\ \A r2 \in 0..(num_rows - 1), c2 \in 0..(num_columns - 1) :
                  <<r2, c2>> # <<r, c>> =>
                      mine \cap Reach(getValue(data, r2, c2), heap, Len(heap)) = {}

-----------------------------------------------------------------------------
\* Cells and points, on grids of any cell size at any origin

NextPoints ==
    \/ GetCellCenter(Full) \/ GetCellPoint(Full) \/ GetCellAtPoint(Full)
    \/ PointInGrid(Full) \/ CellInGrid(Full) \/ Return

SpecPoints == InitPlaced /\ [][NextPoints]_vars

\* C6: getCellPoint(row, col, wDisp, hDisp) returns
\* (left + (col + wDisp) * cellWidth, top + (row + hDisp) * cellHeight) for a
\* cell of the grid, and undefined, without throwing, for any other (row, col).
C6_CellPoint ==
    last.op = "getCellPoint" =>
        LET row == last.args[1]
            col == last.args[2]
            wDisp == last.args[3]
            hDisp == last.args[4]
        IN /\ last.threw = "none"
           /\ last.result =
                IF 0 <= row /\ row < num_rows /\ 0 <= col /\ col < num_columns
                THEN << RAdd(left, RMul(RAdd(R(col), wDisp), cellSize[1])),
                        RAdd(top, RMul(RAdd(R(row), hDisp), cellSize[2])) >>
                ELSE Absent

\* the whole of cell (row, col) lies within [left, right] x [top, bottom]
FullyInside(row, col) ==
    /\ row >= 0 /\ col >= 0
    /\ RLe(RAdd(left, RMul(R(col + 1), cellSize[1])), right)
    /\ RLe(RAdd(top, RMul(R(row + 1), cellSize[2])), bottom)

\* C8: the centre getCellCenter returns for a cell that lies fully inside the
\* grid is a point that getCellAtPoint maps back to that cell.
C8_CenterRoundTrip ==
    last.op = "getCellCenter" /\ FullyInside(last.args[1], last.args[2]) =>
        /\ last.result # Absent
        /\ getCellAtPoint(last.result[1], last.result[2]) = <<last.args[1], last.args[2]>>

\* a centre was taken of a cell below the first row, fully inside a grid whose last
\* column is cut short, whose cells are not square and whose origin is not (0, 0)
C8_Witness ==
    /\ last.op = "getCellCenter"
    /\ FullyInside(last.args[1], last.args[2])
    /\ last.args[1] > 0
    /\ ~FullyInside(0, num_columns - 1)
    /\ cellSize[1] # cellSize[2]
    /\ left # R(0) /\ top # R(0)

-----------------------------------------------------------------------------
\* Scans, on grids of any cell size at any origin

NextFind == FindFirstCell(Full) \/ CellInGrid(Full) \/ Return

SpecFind == InitPlaced /\ [][NextFind]_vars

\* (r1, c1) comes before (r2, c2) in row-major order
Before(r1, c1, r2, c2) == r1 < r2 \/ (r1 = r2 /\ c1 <= c2)

\* C9: findFirstCell(startRow, startCol, condition) returns the first cell in
\* row-major order, among those with startRow <= r < num_rows and
\* startCol <= c < num_columns, that satisfies condition, undefined if there is
\* none, and examines no cell with c < startCol.
C9_FindFirstCell ==
    last.op = "findFirstCell" =>
        LET startRow == last.args[1]
            startCol == last.args[2]
            condition == last.args[3]
            range == {rc \in (startRow..(num_rows - 1)) \X (startCol..(num_columns - 1)) : TRUE}
            hits == {rc \in range : ApplyCellCondition(condition, rc[1], rc[2])}
        IN /\ \A k \in 1..Len(last.result.examined) :
                last.result.examined[k] \in range
           /\ IF hits = {} THEN last.result.cell = Absent
              ELSE /\ last.result.cell \in hits
                   /\ \A rc \in hits :
                        Before(last.result.cell[1], last.result.cell[2], rc[1], rc[2])

\* a scan from column 1 on returned undefined although a cell of column 0, in a
\* later row, satisfies the condition
C9_Witness ==
    /\ last.op = "findFirstCell"
    /\ last.args[1] = 0 /\ last.args[2] = 1
    /\ last.args[3].kind = "at" /\ last.args[3].col = 0 /\ last.args[3].row = 1
    /\ num_rows > 1 /\ num_columns > 1
    /\ last.result.cell = Absent
    /\ Len(last.result.examined) > 1

-----------------------------------------------------------------------------
\* Neighbourhoods, on grids of unit cells

NextNeighbors ==
    \/ SetValue(Full) \/ Fill(Full) \/ TrueForEveryNeighbor(Full)
    \/ TrueForAtLeastOneNeighbor(Full) \/ Return

SpecNeighbors == Init /\ [][NextNeighbors]_vars

Lower(i) == IF i > 0 THEN i ELSE 0
Upper(i, n) == IF i < n - 1 THEN i ELSE n - 1

\* C5: trueForAtLeastOneNeighbor(row, col, distance, condition), distance >= 1,
\* is true iff condition holds of a cell (r, c) of the grid with
\* |r - row| <= distance and |c - col| <= distance.
C5_AtLeastOneNeighbor ==
    last.op = "trueForAtLeastOneNeighbor" /\ last.args[3] >= 1 =>
        LET row == last.args[1]
            col == last.args[2]
            distance == last.args[3]
        IN last.result =
             (\E r \in Lower(row - distance)..Upper(row + distance, num_rows) :
              \E c \in Lower(col - distance)..Upper(col + distance, num_columns) :
                 ApplyCondition(last.args[4], getValue(data, r, c)))

-----------------------------------------------------------------------------
\* The convolution, on grids of any cell size at any origin

NextLaplace == Fill(Full) \/ SetValue(Probe) \/ Laplace3x3(Full) \/ Return

SpecLaplace == InitPlaced /\ [][NextLaplace]_vars

\* the centre of the window: (row, col) moved one cell inwards from the border
Inward(i, n) == IF i = 0 THEN 1 ELSE IF i = n - 1 THEN n - 2 ELSE i

RECURSIVE WindowSum(_, _, _, _)
WindowSum(r, c, weights, k) ==
    IF k > 9 THEN 0
    ELSE getValue(data, r + ((k - 1) \div 3) - 1, c + ((k - 1) % 3) - 1).v * weights[k]
            + WindowSum(r, c, weights, k + 1)

\* C4: on a grid of at least 3 rows and 3 columns, laplace3x3(row, col, weights, fn)
\* of a cell of the grid is the sum of fn(cell) * weight over the 3x3 window
\* around (row, col) moved inwards from the border, in row-major order.
C4_Laplace ==
    last.op = "laplace3x3" /\ num_rows >= 3 /\ num_columns >= 3 =>
        /\ last.threw = "none"
        /\ last.result = Num(WindowSum(Inward(last.args[1], num_rows),
                                       Inward(last.args[2], num_columns), last.args[3], 1))

-----------------------------------------------------------------------------
\* Segments, on grids of any cell size at any origin

\* the grid is as constructed, all zeros: v => v === 0 holds of every cell
Segments == [Full EXCEPT !.conditions = {"isZero"}]

NextSegment ==
    \/ GetCellAtPoint(Segments) \/ GetCellsInSegment(Segments) \/ TrueInASegment(Segments)
    \/ Return

SpecSegment == InitPlaced /\ [][NextSegment]_vars

\* the cells of the samples p1 + i * (dx, dy) / steps, i = 0 .. floor(steps)
RECURSIVE SampledCells(_, _, _, _, _, _)
SampledCells(p1, dx, dy, steps, i, cells) ==
    IF i > Floor(steps) THEN cells
    ELSE LET x == IF i = 0 THEN p1[1] ELSE RAdd(p1[1], RDiv(RMul(R(i), dx), steps))
             y == IF i = 0 THEN p1[2] ELSE RAdd(p1[2], RDiv(RMul(R(i), dy), steps))
             cell == getCellAtPoint(x, y)
         IN SampledCells(p1, dx, dy, steps, i + 1,
                         IF cell # Absent THEN Append(cells, cell) ELSE cells)

\* C7: getCellsInSegment(p1, p2, step) returns the cells of the samples taken
\* with steps = max(|dx| / cellWidth, |dy| / cellHeight).
C7_SegmentSteps ==
    last.op = "getCellsInSegment" =>
        LET p1 == last.args[1]
            p2 == last.args[2]
            dx == RSub(p2[1], p1[1])
            dy == RSub(p2[2], p1[2])
            across == RDiv(RAbs(dx), cellSize[1])
            down == RDiv(RAbs(dy), cellSize[2])
            steps == IF RGt(across, down) THEN across ELSE down
        IN last.result = SampledCells(p1, dx, dy, steps, 0, <<>>)

InBounds(cell) ==
    0 <= cell[1] /\ cell[1] < num_rows /\ 0 <= cell[2] /\ cell[2] < num_columns

\* C10: a cell getCellAtPoint returns is a cell of the grid, so are the cells
\* getCellsInSegment returns, and trueInASegment reads no row the storage lacks.
C10_CellsAddressable ==
    /\ last.op = "getCellAtPoint" /\ last.result # Absent => InBounds(last.result)
    /\ last.op = "getCellsInSegment" =>
          \A k \in 1..Len(last.result) : InBounds(last.result[k])
    /\ last.op = "trueInASegment" => last.threw = "none"

====
